---- MODULE Spec2Model ----
(***************************************************************************)
(* HttpClient of capmonstercloud-client-js (src/unnamed/part_001).         *)
(*                                                                         *)
(* One HttpClient instance: the private fields _socket and _agent, the     *)
(* TCP sockets it has opened with net.connect, and the post calls that     *)
(* run against it.  Node runs one callback at a time and drains the        *)
(* promise continuations (microtasks) before it delivers the next I/O      *)
(* event, so an I/O event is enabled only when no continuation is pending. *)
(*                                                                         *)
(* Strings are sequences: header values and messages are sequences of      *)
(* text pieces, a response body is a sequence of bytes on the wire and a   *)
(* sequence of code points after Buffer.toString('utf8').                  *)
(***************************************************************************)
EXTENDS Integers, Sequences, FiniteSets, TLC

(* Concurrent callers of post on the one client. *)
MaxCalls == 2
(* Sockets the client opens in one run (net.connect calls). *)
MaxSockets == 3
(* 'data' events of one response. *)
MaxChunks == 2

Calls == 1..MaxCalls
Sockets == 1..MaxSockets

(* undefined, for _socket, _agent and the agent option of a request *)
Undefined == 0
(* no request issued yet by the call *)
NoRequest == -1

----------------------------------------------------------------------------
(* Text                                                                    *)

(* String.prototype.includes: t occurs in s as a contiguous run. *)
Includes(s, t) ==
    \E i \in 0..(Len(s) - Len(t)) : SubSeq(s, i + 1, i + Len(t)) = t

(* enum ResponseContentType *)
ResponseContentType ==
    [json |-> <<"application", "/", "json">>, text |-> <<"text", "/", "plain">>]

(* Buffer.concat(chunks) *)
RECURSIVE BufferConcat(_)
BufferConcat(cs) ==
    IF cs = <<>> THEN <<>> ELSE Head(cs) \o BufferConcat(Tail(cs))

(* U+FFFD, what the decoder puts for a byte that starts no valid sequence *)
ReplacementChar == 65533

IsContinuation(b) == b >= 128 /\ b <= 191

(* Buffer.toString('utf8') on bytes below 0xE0 and the invalid bytes above
   0xF4: one- and two-byte sequences, U+FFFD for every byte that is not part
   of one. *)
RECURSIVE Utf8ToString(_)
Utf8ToString(bytes) ==
    IF bytes = <<>> THEN <<>>
    ELSE LET b == Head(bytes)
             rest == Tail(bytes)
         IN  IF b < 128 THEN <<b>> \o Utf8ToString(rest)
             ELSE IF b >= 194 /\ b <= 223 /\ rest # <<>> /\ IsContinuation(Head(rest))
                  THEN <<(b - 192) * 64 + (Head(rest) - 128)>> \o Utf8ToString(Tail(rest))
                  ELSE <<ReplacementChar>> \o Utf8ToString(rest)

----------------------------------------------------------------------------
(* JSON.parse                                                              *)

(* A decoded JSON value: t is "obj", "str", "num" or "none" (no value);
   n the number, s the string's code points, m the object's members in
   source order, each <<key, value>>. *)
JValue(t, n, s, m) == [t |-> t, n |-> n, s |-> s, m |-> m]
NoValue == JValue("none", 0, <<>>, <<>>)

(* the result of one parsing step: next is the index after what was read *)
Parsed(ok, next, val) == [ok |-> ok, next |-> next, val |-> val]
ParseFail == Parsed(FALSE, 0, NoValue)

IsWhitespace(ch) == ch \in {9, 10, 13, 32}
IsDigit(ch) == ch >= 48 /\ ch <= 57

RECURSIVE SkipWhitespace(_, _)
SkipWhitespace(s, i) ==
    IF i <= Len(s) /\ IsWhitespace(s[i]) THEN SkipWhitespace(s, i + 1) ELSE i

(* index of the quote that closes the string whose first character is at j,
   0 when there is none; a control character or an escape ends the parse *)
RECURSIVE StringEnd(_, _)
StringEnd(s, j) ==
    IF j > Len(s) THEN 0
    ELSE IF s[j] = 34 THEN j
    ELSE IF s[j] < 32 \/ s[j] = 92 THEN 0
    ELSE StringEnd(s, j + 1)

ParseString(s, i) ==
    IF i > Len(s) \/ s[i] # 34 THEN ParseFail
    ELSE LET e == StringEnd(s, i + 1)
         IN  IF e = 0 THEN ParseFail
             ELSE Parsed(TRUE, e + 1, JValue("str", 0, SubSeq(s, i + 1, e - 1), <<>>))

RECURSIVE DigitsEnd(_, _)
DigitsEnd(s, j) == IF j <= Len(s) /\ IsDigit(s[j]) THEN DigitsEnd(s, j + 1) ELSE j

RECURSIVE DigitsValue(_)
DigitsValue(ds) ==
    IF ds = <<>> THEN 0
    ELSE 10 * DigitsValue(SubSeq(ds, 1, Len(ds) - 1)) + (ds[Len(ds)] - 48)

(* an integer literal: an optional minus sign, then 0 or a run of digits
   that does not start with 0 *)
ParseNumber(s, i) ==
    LET neg == i <= Len(s) /\ s[i] = 45
        d == IF neg THEN i + 1 ELSE i
        e == DigitsEnd(s, d)
    IN  IF e = d \/ (s[d] = 48 /\ e > d + 1) THEN ParseFail
        ELSE LET v == DigitsValue(SubSeq(s, d, e - 1))
             IN  Parsed(TRUE, e, JValue("num", IF neg THEN 0 - v ELSE v, <<>>, <<>>))

RECURSIVE ParseValue(_, _)
RECURSIVE ParseMembers(_, _, _)

(* the members of an object from the key at j on, up to the closing brace *)
ParseMembers(s, j, acc) ==
    LET key == ParseString(s, j)
    IN  IF ~key.ok THEN ParseFail
        ELSE LET c == SkipWhitespace(s, key.next)
             IN  IF c > Len(s) \/ s[c] # 58 THEN ParseFail
                 ELSE LET v == ParseValue(s, SkipWhitespace(s, c + 1))
                      IN  IF ~v.ok THEN ParseFail
                          ELSE LET l == SkipWhitespace(s, v.next)
                                   got == Append(acc, <<key.val.s, v.val>>)
                               IN  IF l > Len(s) THEN ParseFail
                                   ELSE IF s[l] = 44
                                        THEN ParseMembers(s, SkipWhitespace(s, l + 1), got)
                                   ELSE IF s[l] = 125
                                        THEN Parsed(TRUE, l + 1, JValue("obj", 0, <<>>, got))
                                   ELSE ParseFail

ParseValue(s, i) ==
    IF i > Len(s) THEN ParseFail
    ELSE IF s[i] = 34 THEN ParseString(s, i)
    ELSE IF s[i] = 45 \/ IsDigit(s[i]) THEN ParseNumber(s, i)
    ELSE IF s[i] = 123
         THEN LET j == SkipWhitespace(s, i + 1)
              IN  IF j <= Len(s) /\ s[j] = 125
                  THEN Parsed(TRUE, j + 1, JValue("obj", 0, <<>>, <<>>))
                  ELSE ParseMembers(s, j, <<>>)
    ELSE ParseFail

(* JSON.parse on texts made of objects, strings without escapes and integer
   literals: ok with the value, or not ok where JSON.parse throws a
   SyntaxError (text left over after the value included). *)
JSONParse(text) ==
    LET r == ParseValue(text, SkipWhitespace(text, 1))
    IN  IF r.ok /\ SkipWhitespace(text, r.next) = Len(text) + 1
        THEN [ok |-> TRUE, val |-> r.val]
        ELSE [ok |-> FALSE, val |-> NoValue]

----------------------------------------------------------------------------
(* Responses and errors                                                    *)

(* res.headers['content-type']: absent, or a string *)
Header(present, value) == [present |-> present, value |-> value]
NoHeader == Header(FALSE, <<>>)

(* an IncomingMessage as far as the client reads it *)
IncomingMessage(code, message, contentType) ==
    [statusCode |-> code, statusMessage |-> message, contentType |-> contentType]
NoResponse == IncomingMessage(0, <<>>, NoHeader)

(* status lines the server may answer with *)
StatusCodes == {200, 204, 500}
StatusMessages == {<<"OK">>, <<"Internal Server Error">>}

(* content-type headers the server may answer with: none, the empty string,
   text/html, application/json with a charset parameter, text/plain *)
ContentTypes ==
    { NoHeader,
      Header(TRUE, <<>>),
      Header(TRUE, <<"text", "/", "html">>),
      Header(TRUE, <<"application", "/", "json", ";", "charset=utf-8">>),
      Header(TRUE, <<"text", "/", "plain">>) }

Responses ==
    { IncomingMessage(code, message, contentType) :
        code \in StatusCodes, message \in StatusMessages, contentType \in ContentTypes }

(* the chunks a 'data' event may carry, as bytes: {}  0  "<C3  <A9"
   (the last two are a string whose two-byte character is split in two) *)
ChunkAlphabet == { <<123, 125>>, <<48>>, <<34, 195>>, <<169, 34>> }

(* What a promise of the client settles with.  kind is "pending", "value"
   (resolved), or the class of the rejection: the client's error classes,
   "Error" (the Error object of a socket, request or stream 'error' event),
   "boolean" (the hadError argument of a socket 'close' event) and
   "undefined" (reject() without an argument). *)
Settled(kind, statusMessage, statusCode, message, responseBody, value) ==
    [kind |-> kind, statusMessage |-> statusMessage, statusCode |-> statusCode,
     message |-> message, responseBody |-> responseBody, value |-> value]
Pending == Settled("pending", <<>>, Undefined, <<>>, <<>>, NoValue)
Rejection(kind) == Settled(kind, <<>>, Undefined, <<>>, <<>>, NoValue)
Resolution(value) == Settled("value", <<>>, Undefined, <<>>, <<>>, value)

(* class HttpStatusError: super(statusMessage) *)
HttpStatusError(statusMessage, statusCode) ==
    Settled("HttpStatusError", statusMessage, statusCode, statusMessage, <<>>, NoValue)

(* class HttpContentTypeError: super(statusMessage), no status code given *)
HttpContentTypeError(statusMessage) ==
    Settled("HttpContentTypeError", statusMessage, Undefined, statusMessage, <<>>, NoValue)

(* class JSONParseError *)
JSONParseError(message, responseBody) ==
    Settled("JSONParseError", <<>>, Undefined, message, responseBody, NoValue)

(* instanceof HttpClientError: the class and the classes that extend it *)
IsHttpClientError(e) ==
    e.kind \in {"HttpClientError", "HttpSocketError", "HttpStatusError", "HttpContentTypeError"}

(* instanceof HttpSocketError *)
IsHttpSocketError(e) == e.kind = "HttpSocketError"

----------------------------------------------------------------------------
(* The solve protocol: what createTask and getTaskResult answer            *)

(* The largest maximum of poll attempts a client is configured with. *)
MaxPollAttempts == 3

(* no task identifier stored *)
NoTask == 0

(* task identifiers the service hands out; the first is the one of the
   repository's integration test *)
TaskIds == {7654321, 42}

(* solutions the service returns; the first is the one of the test *)
Solutions == {"answer", "other"}

(* business errors: a non-zero errorId with its errorCode *)
ServiceErrors ==
    { [errorId |-> 1, errorCode |-> "ERROR_KEY_DOES_NOT_EXIST"],
      [errorId |-> 12, errorCode |-> "ERROR_CAPTCHA_UNSOLVABLE"] }

(* the decoded payload of a 200 response, as far as solve reads it; method is
   the method it answers, "none" for no answer yet *)
Answer(method, errorId, errorCode, id, status, solution) ==
    [method |-> method, errorId |-> errorId, errorCode |-> errorCode, taskId |-> id,
     status |-> status, solution |-> solution]
NoAnswer == Answer("none", 0, "", NoTask, "", "")

CreateTaskAnswers ==
    { Answer("createTask", 0, "", id, "", "") : id \in TaskIds }
    \cup { Answer("createTask", e.errorId, e.errorCode, NoTask, "", "") : e \in ServiceErrors }

GetTaskResultAnswers ==
    { Answer("getTaskResult", 0, "", NoTask, "processing", "") }
    \cup { Answer("getTaskResult", 0, "", NoTask, "ready", s) : s \in Solutions }
    \cup { Answer("getTaskResult", e.errorId, e.errorCode, NoTask, "", "") : e \in ServiceErrors }

(* the kinds of rejection of post that reach solve *)
PostFailures == {"Error", "HttpStatusError", "HttpContentTypeError", "JSONParseError"}

(* a request of solve: the method and, for getTaskResult, the task identifier *)
Request(method, id) == [method |-> method, taskId |-> id]

(* What solve settles with: kind is "pending", "solution" (resolved),
   "serviceError" (a non-zero errorId, with its detail), "timeout" (with the
   number of attempts made) or "postFailure" (post rejected, with its kind). *)
SolveSettled(kind, errorId, errorCode, solution, made, cause) ==
    [kind |-> kind, errorId |-> errorId, errorCode |-> errorCode, solution |-> solution,
     attempts |-> made, cause |-> cause]
SolvePending == SolveSettled("pending", 0, "", "", 0, "")
SolveSolution(s) == SolveSettled("solution", 0, "", s, 0, "")
SolveServiceError(a) == SolveSettled("serviceError", a.errorId, a.errorCode, "", 0, "")
SolveTimeout(made) == SolveSettled("timeout", 0, "", "", made, "")
SolvePostFailure(kind) == SolveSettled("postFailure", 0, "", "", 0, kind)

----------------------------------------------------------------------------
(* State                                                                   *)

VARIABLES
    socket,     \* this._socket: Undefined, or the socket held
    agent,      \* this._agent: Undefined, or the socket the agent was built on
    sockState,  \* per socket: "unopened", "connecting", "connected", "errored", "closed"
    handle,     \* history: the socket stored when netConnectOrUse last returned,
                \* Undefined once a socket 'error' or 'close' event followed it
    pc,         \* per call: where the post call stands
    awaiting,   \* per call: the socket whose netConnect promise it awaits
    reqAgent,   \* per call: the agent option of the request it issued
    res,        \* per call: the IncomingMessage of its request
    chunks,     \* per call: the chunks array of responseBodyHandler
    body,       \* per call: responseBody, the decoded text
    stages,     \* per call, history: the handlers that have run for it, in order
    outcome,    \* per call: what the promise of post settled with
    phase,      \* solve: "Idle", "Submitting", "Polling", "Ready", "Failed", "TimedOut"
    maxAttempts, \* solve: the configured maximum of poll attempts
    attempts,   \* solve: the polling attempt counter
    createAnswer, \* solve: the decoded createTask response
    taskId,     \* solve: the stored task identifier
    lastAnswer, \* solve: the decoded response of the last getTaskResult
    inFlight,   \* solve: a getTaskResult request awaits its response
    sent,       \* solve, history: the requests sent, in order
    solveOutcome \* solve: what the solve call settled with

connVars == <<socket, agent, sockState, handle>>
callVars == <<pc, awaiting, reqAgent, res, chunks, body, stages, outcome>>
solveVars == <<phase, maxAttempts, attempts, createAnswer, taskId, lastAnswer,
               inFlight, sent, solveOutcome>>
vars == <<socket, agent, sockState, handle, pc, awaiting, reqAgent, res, chunks,
          body, stages, outcome, solveVars>>

PcValues ==
    { "idle", "connecting", "connResolved", "requesting", "gotResponse", "statusOk",
      "ctOk", "receiving", "bodyDone", "resolved", "rejected" }

TypeOK ==
    /\ socket \in {Undefined} \cup Sockets
    /\ agent \in {Undefined} \cup Sockets
    /\ sockState \in [Sockets -> {"unopened", "connecting", "connected", "errored", "closed"}]
    /\ handle \in {Undefined} \cup Sockets
    /\ pc \in [Calls -> PcValues]
    /\ awaiting \in [Calls -> {Undefined} \cup Sockets]
    /\ reqAgent \in [Calls -> {NoRequest, Undefined} \cup Sockets]
    /\ \A c \in Calls : res[c] \in Responses \cup {NoResponse}
    /\ \A c \in Calls : Len(chunks[c]) <= MaxChunks

(* the client after construction *)
ClientInit ==
    /\ socket = Undefined
    /\ agent = Undefined
    /\ sockState = [s \in Sockets |-> "unopened"]
    /\ handle = Undefined
    /\ pc = [c \in Calls |-> "idle"]
    /\ awaiting = [c \in Calls |-> Undefined]
    /\ reqAgent = [c \in Calls |-> NoRequest]
    /\ res = [c \in Calls |-> NoResponse]
    /\ chunks = [c \in Calls |-> <<>>]
    /\ body = [c \in Calls |-> <<>>]
    /\ stages = [c \in Calls |-> <<>>]
    /\ outcome = [c \in Calls |-> Pending]

(* no solve call yet, on a client configured with a maximum of m attempts *)
SolveInit(m) ==
    /\ phase = "Idle"
    /\ maxAttempts = m
    /\ attempts = 0
    /\ createAnswer = NoAnswer
    /\ taskId = NoTask
    /\ lastAnswer = NoAnswer
    /\ inFlight = FALSE
    /\ sent = <<>>
    /\ solveOutcome = SolvePending

Init ==
    /\ ClientInit
    /\ SolveInit(MaxPollAttempts)

(* the sockets net.connect has returned so far *)
Opened == {s \in Sockets : sockState[s] # "unopened"}

(* the sockets that are connecting or connected *)
Open == {s \in Sockets : sockState[s] \in {"connecting", "connected"}}

(* A continuation of some call is queued: the code after an await whose promise
   has settled, or the caller's code after post settled.  Node runs these
   before it delivers another I/O event. *)
MicrotaskPending ==
    \E c \in Calls :
        pc[c] \in {"connResolved", "gotResponse", "statusOk", "ctOk", "bodyDone",
                   "resolved", "rejected"}

(* the calls whose netConnect promise belongs to socket s and is pending *)
Waiters(s) == {c \in Calls : pc[c] = "connecting" /\ awaiting[c] = s}

(* the data of call c's request can flow: over the socket of the agent the
   request was given, or, with no agent given, over a connection of the https
   module's own *)
CanTransfer(c) ==
    reqAgent[c] = Undefined \/ (reqAgent[c] \in Sockets /\ sockState[reqAgent[c]] = "connected")

----------------------------------------------------------------------------
(* Transport: netConnect, netConnectOrUse and the socket's handlers        *)

(* the promise of the calls in ws rejects with e; every other call is untouched *)
RejectWaiters(ws, e) ==
    /\ pc' = [c \in Calls |-> IF c \in ws THEN "rejected" ELSE pc[c]]
    /\ outcome' = [c \in Calls |-> IF c \in ws THEN e ELSE outcome[c]]

(* netConnect: net.connect returns a new socket, which is stored at once; the
   promise stays pending until one of the socket's handlers settles it *)
NetConnect(c) ==
    /\ Cardinality(Opened) < MaxSockets
    /\ LET s == Cardinality(Opened) + 1
       IN  /\ socket' = s
           /\ sockState' = [sockState EXCEPT ![s] = "connecting"]
           /\ handle' = s
           /\ awaiting' = [awaiting EXCEPT ![c] = s]
    /\ pc' = [pc EXCEPT ![c] = "connecting"]
    /\ UNCHANGED agent

(* netConnectOrUse without its test of this._socket *)
NetConnectOrUseNoReuse(c) ==
    NetConnect(c)

(* netConnectOrUse: with a socket stored, Promise.resolve(); else netConnect *)
NetConnectOrUse(c) ==
    IF socket # Undefined
    THEN /\ pc' = [pc EXCEPT ![c] = "connResolved"]
         /\ handle' = socket
         /\ UNCHANGED <<socket, agent, sockState, awaiting>>
    ELSE NetConnect(c)

(* post, up to its first await: the caller's code runs at any time; it takes
   the first free call *)
Post(c) ==
    /\ pc[c] = "idle"
    /\ \A d \in Calls : d < c => pc[d] # "idle"
    /\ NetConnectOrUse(c)
    /\ stages' = [stages EXCEPT ![c] = <<"connect">>]
    /\ UNCHANGED <<reqAgent, res, chunks, body, outcome>>
    /\ UNCHANGED solveVars

(* a 'connect' handler that builds the agent on the socket that connected *)
SocketConnectOwnSocket(s) ==
    /\ ~MicrotaskPending
    /\ sockState[s] = "connecting"
    /\ sockState' = [sockState EXCEPT ![s] = "connected"]
    /\ IF socket # Undefined
       THEN /\ agent' = s
            /\ pc' = [c \in Calls |-> IF c \in Waiters(s) THEN "connResolved" ELSE pc[c]]
            /\ UNCHANGED outcome
       ELSE /\ RejectWaiters(Waiters(s), Rejection("undefined"))
            /\ UNCHANGED agent
    /\ UNCHANGED <<socket, handle, awaiting, reqAgent, res, chunks, body, stages>>
    /\ UNCHANGED solveVars

(* a 'connect' handler without the else branch: with this._socket cleared
   the promise is left pending *)
SocketConnectNoReject(s) ==
    /\ ~MicrotaskPending
    /\ sockState[s] = "connecting"
    /\ sockState' = [sockState EXCEPT ![s] = "connected"]
    /\ IF socket # Undefined
       THEN /\ agent' = socket
            /\ pc' = [c \in Calls |-> IF c \in Waiters(s) THEN "connResolved" ELSE pc[c]]
       ELSE UNCHANGED <<agent, pc>>
    /\ UNCHANGED <<socket, handle, awaiting, reqAgent, res, chunks, body, stages, outcome>>
    /\ UNCHANGED solveVars

(* the 'connect' handler: the agent is built on this._socket as it is now *)
SocketConnect(s) ==
    /\ ~MicrotaskPending
    /\ sockState[s] = "connecting"
    /\ sockState' = [sockState EXCEPT ![s] = "connected"]
    /\ IF socket # Undefined
       THEN /\ agent' = socket
            /\ pc' = [c \in Calls |-> IF c \in Waiters(s) THEN "connResolved" ELSE pc[c]]
            /\ UNCHANGED outcome
       ELSE /\ RejectWaiters(Waiters(s), Rejection("undefined"))
            /\ UNCHANGED agent
    /\ UNCHANGED <<socket, handle, awaiting, reqAgent, res, chunks, body, stages>>
    /\ UNCHANGED solveVars

(* an 'error' handler that opens the next socket by itself *)
SocketErrorReconnects(s) ==
    /\ ~MicrotaskPending
    /\ sockState[s] \in {"connecting", "connected"}
    /\ Cardinality(Opened) < MaxSockets
    /\ LET n == Cardinality(Opened) + 1
       IN  /\ socket' = n
           /\ sockState' = [sockState EXCEPT ![s] = "errored", ![n] = "connecting"]
    /\ agent' = Undefined
    /\ handle' = Undefined
    /\ RejectWaiters(Waiters(s), Rejection("Error"))
    /\ UNCHANGED <<awaiting, reqAgent, res, chunks, body, stages>>
    /\ UNCHANGED solveVars

(* the 'error' handler, of a socket that is connecting or connected: both
   fields are cleared and the promise rejects with the socket's Error *)
SocketError(s) ==
    /\ ~MicrotaskPending
    /\ sockState[s] \in {"connecting", "connected"}
    /\ sockState' = [sockState EXCEPT ![s] = "errored"]
    /\ socket' = Undefined
    /\ agent' = Undefined
    /\ handle' = Undefined
    /\ RejectWaiters(Waiters(s), Rejection("Error"))
    /\ UNCHANGED <<awaiting, reqAgent, res, chunks, body, stages>>
    /\ UNCHANGED solveVars

(* a 'close' handler that clears the socket and forgets the agent *)
SocketCloseKeepsAgent(s) ==
    /\ ~MicrotaskPending
    /\ sockState[s] \in {"connected", "errored"}
    /\ sockState' = [sockState EXCEPT ![s] = "closed"]
    /\ socket' = Undefined
    /\ handle' = Undefined
    /\ RejectWaiters(Waiters(s), Rejection("boolean"))
    /\ UNCHANGED <<agent, awaiting, reqAgent, res, chunks, body, stages>>
    /\ UNCHANGED solveVars

(* the 'close' handler: a socket closes after its 'error', or when the peer
   ends an established connection; both fields are cleared and the promise
   rejects with the event's hadError flag *)
SocketClose(s) ==
    /\ ~MicrotaskPending
    /\ sockState[s] \in {"connected", "errored"}
    /\ sockState' = [sockState EXCEPT ![s] = "closed"]
    /\ socket' = Undefined
    /\ agent' = Undefined
    /\ handle' = Undefined
    /\ RejectWaiters(Waiters(s), Rejection("boolean"))
    /\ UNCHANGED <<awaiting, reqAgent, res, chunks, body, stages>>
    /\ UNCHANGED solveVars

----------------------------------------------------------------------------
(* Request                                                                 *)

(* post after await netConnectOrUse(): postJSON calls requestHandler, which
   issues the one POST with agent: this._agent *)
RequestHandler(c) ==
    /\ pc[c] = "connResolved"
    /\ pc' = [pc EXCEPT ![c] = "requesting"]
    /\ reqAgent' = [reqAgent EXCEPT ![c] = agent]
    /\ stages' = [stages EXCEPT ![c] = Append(@, "request")]
    /\ UNCHANGED <<connVars, awaiting, res, chunks, body, outcome>>
    /\ UNCHANGED solveVars

(* a request 'error' handler that sends the request again *)
RequestErrorRetries(c) ==
    /\ ~MicrotaskPending
    /\ pc[c] = "requesting"
    /\ stages' = [stages EXCEPT ![c] = Append(@, "request")]
    /\ UNCHANGED <<connVars, pc, awaiting, reqAgent, res, chunks, body, outcome>>
    /\ UNCHANGED solveVars

(* the request's 'error' handler: reject(err), which post passes on *)
RequestError(c) ==
    /\ ~MicrotaskPending
    /\ pc[c] = "requesting"
    /\ pc' = [pc EXCEPT ![c] = "rejected"]
    /\ outcome' = [outcome EXCEPT ![c] = Rejection("Error")]
    /\ UNCHANGED <<connVars, awaiting, reqAgent, res, chunks, body, stages>>
    /\ UNCHANGED solveVars

(* the caller's code after post settled: the call is over *)
Return(c) ==
    /\ pc[c] \in {"resolved", "rejected"}
    /\ pc' = [pc EXCEPT ![c] = "idle"]
    /\ awaiting' = [awaiting EXCEPT ![c] = Undefined]
    /\ reqAgent' = [reqAgent EXCEPT ![c] = NoRequest]
    /\ res' = [res EXCEPT ![c] = NoResponse]
    /\ chunks' = [chunks EXCEPT ![c] = <<>>]
    /\ body' = [body EXCEPT ![c] = <<>>]
    /\ stages' = [stages EXCEPT ![c] = <<>>]
    /\ outcome' = [outcome EXCEPT ![c] = Pending]
    /\ UNCHANGED connVars
    /\ UNCHANGED solveVars

(* The client under overlapping callers, with a server that never answers:
   a request ends only by its 'error' event.  The handlers of a response
   (NextPipeline) read and write only the call they belong to and leave
   _socket, _agent and the sockets as they are. *)
NextConnection ==
    \/ \E c \in Calls : Post(c)
    \/ \E c \in Calls : RequestHandler(c)
    \/ \E c \in Calls : RequestError(c)
    \/ \E c \in Calls : Return(c)
    \/ \E s \in Sockets : SocketConnect(s)
    \/ \E s \in Sockets : SocketError(s)
    \/ \E s \in Sockets : SocketClose(s)

SpecConnection == Init /\ [][NextConnection]_vars

----------------------------------------------------------------------------
(* Response pipeline: postJSON after the response headers arrived          *)

(* what a response handler's promise does: pass (resolve(res)) or reject *)
Pass == [ok |-> TRUE, error |-> Pending]
Fail(e) == [ok |-> FALSE, error |-> e]

(* the status every call of the client expects *)
ExpectedStatus == 200

(* a status check that lets every 2xx status pass *)
ResponseStatusHandlerAny2xx(r, expectedStatus) ==
    IF r.statusCode >= 200 /\ r.statusCode < 300
    THEN Pass
    ELSE Fail(HttpStatusError(r.statusMessage, r.statusCode))

(* responseStatusHandler *)
ResponseStatusHandler(r, expectedStatus) ==
    IF r.statusCode = expectedStatus
    THEN Pass
    ELSE Fail(HttpStatusError(r.statusMessage, r.statusCode))

(* a JavaScript string in a condition: undefined and "" are false *)
Truthy(h) == h.present /\ h.value # <<>>

(* a content-type check that lets a response without the header pass *)
ResponseContentTypeHandlerLax(r, expectedContentTypes) ==
    LET contentType == r.contentType
    IN  IF Truthy(contentType)
        THEN IF \E e \in expectedContentTypes : Includes(contentType.value, e)
             THEN Pass
             ELSE Fail(HttpContentTypeError(
                      <<"Unexpected content type. Got ">> \o contentType.value))
        ELSE Pass

(* responseContentTypeHandler, given the set of expected content types *)
ResponseContentTypeHandler(r, expectedContentTypes) ==
    LET contentType == r.contentType
    IN  IF Truthy(contentType)
        THEN IF \E e \in expectedContentTypes : Includes(contentType.value, e)
             THEN Pass
             ELSE Fail(HttpContentTypeError(
                      <<"Unexpected content type. Got ">> \o contentType.value))
        ELSE Fail(HttpContentTypeError(<<"Unknown content type">>))

(* the content types postJSON accepts *)
PostJSONContentTypes == {ResponseContentType.json, ResponseContentType.text}

(* an 'end' handler that decodes chunk by chunk *)
ResponseBodyPerChunk(cs) ==
    BufferConcat([i \in 1..Len(cs) |-> Utf8ToString(cs[i])])

(* the 'end' handler of responseBodyHandler: Buffer.concat(chunks).toString('utf8') *)
ResponseBody(cs) ==
    Utf8ToString(BufferConcat(cs))

(* a JSON step whose error leaves the body out *)
ResponseJSONHandlerNoBody(responseBody) ==
    LET p == JSONParse(responseBody)
    IN  IF p.ok THEN Resolution(p.val)
        ELSE JSONParseError(<<"SyntaxError">>, <<>>)

(* responseJSONHandler after the body arrived: JSON.parse, a SyntaxError
   rethrown as JSONParseError with the text that was parsed *)
ResponseJSONHandler(responseBody) ==
    LET p == JSONParse(responseBody)
    IN  IF p.ok THEN Resolution(p.val)
        ELSE JSONParseError(<<"SyntaxError">>, responseBody)

(* the callback of https.request: resolve(res) *)
Response(c, r) ==
    /\ ~MicrotaskPending
    /\ pc[c] = "requesting"
    /\ CanTransfer(c)
    /\ pc' = [pc EXCEPT ![c] = "gotResponse"]
    /\ res' = [res EXCEPT ![c] = r]
    /\ UNCHANGED <<connVars, awaiting, reqAgent, chunks, body, stages, outcome>>
    /\ UNCHANGED solveVars

(* postJSON: await this.responseStatusHandler(res, 200) *)
StatusStep(c) ==
    /\ pc[c] = "gotResponse"
    /\ LET h == ResponseStatusHandler(res[c], ExpectedStatus)
       IN  /\ pc' = [pc EXCEPT ![c] = IF h.ok THEN "statusOk" ELSE "rejected"]
           /\ outcome' = [outcome EXCEPT ![c] = h.error]
    /\ stages' = [stages EXCEPT ![c] = Append(@, "status")]
    /\ UNCHANGED <<connVars, awaiting, reqAgent, res, chunks, body>>
    /\ UNCHANGED solveVars

(* postJSON: await this.responseContentTypeHandler(res, [json, text]) *)
ContentTypeStep(c) ==
    /\ pc[c] = "statusOk"
    /\ LET h == ResponseContentTypeHandler(res[c], PostJSONContentTypes)
       IN  /\ pc' = [pc EXCEPT ![c] = IF h.ok THEN "ctOk" ELSE "rejected"]
           /\ outcome' = [outcome EXCEPT ![c] = h.error]
    /\ stages' = [stages EXCEPT ![c] = Append(@, "ctype")]
    /\ UNCHANGED <<connVars, awaiting, reqAgent, res, chunks, body>>
    /\ UNCHANGED solveVars

(* responseJSONHandler calls responseBodyHandler, which starts with no chunks
   and listens for 'data', 'end' and 'error' *)
BodyStep(c) ==
    /\ pc[c] = "ctOk"
    /\ pc' = [pc EXCEPT ![c] = "receiving"]
    /\ chunks' = [chunks EXCEPT ![c] = <<>>]
    /\ stages' = [stages EXCEPT ![c] = Append(@, "body")]
    /\ UNCHANGED <<connVars, awaiting, reqAgent, res, body, outcome>>
    /\ UNCHANGED solveVars

(* the 'data' handler: chunks.push(chunk) *)
Data(c, chunk) ==
    /\ ~MicrotaskPending
    /\ pc[c] = "receiving"
    /\ CanTransfer(c)
    /\ Len(chunks[c]) < MaxChunks
    /\ chunks' = [chunks EXCEPT ![c] = Append(@, chunk)]
    /\ UNCHANGED <<connVars, pc, awaiting, reqAgent, res, body, stages, outcome>>
    /\ UNCHANGED solveVars

(* the 'end' handler: resolve(responseBody) *)
End(c) ==
    /\ ~MicrotaskPending
    /\ pc[c] = "receiving"
    /\ CanTransfer(c)
    /\ pc' = [pc EXCEPT ![c] = "bodyDone"]
    /\ body' = [body EXCEPT ![c] = ResponseBody(chunks[c])]
    /\ UNCHANGED <<connVars, awaiting, reqAgent, res, chunks, stages, outcome>>
    /\ UNCHANGED solveVars

(* the response's 'error' handler: reject, with the stream's Error *)
StreamError(c) ==
    /\ ~MicrotaskPending
    /\ pc[c] = "receiving"
    /\ pc' = [pc EXCEPT ![c] = "rejected"]
    /\ outcome' = [outcome EXCEPT ![c] = Rejection("Error")]
    /\ UNCHANGED <<connVars, awaiting, reqAgent, res, chunks, body, stages>>
    /\ UNCHANGED solveVars

(* responseJSONHandler after await responseBodyHandler(res); postJSON and
   post return what it returns *)
JSONStep(c) ==
    /\ pc[c] = "bodyDone"
    /\ LET r == ResponseJSONHandler(body[c])
       IN  /\ pc' = [pc EXCEPT ![c] = IF r.kind = "value" THEN "resolved" ELSE "rejected"]
           /\ outcome' = [outcome EXCEPT ![c] = r]
    /\ stages' = [stages EXCEPT ![c] = Append(@, "json")]
    /\ UNCHANGED <<connVars, awaiting, reqAgent, res, chunks, body>>
    /\ UNCHANGED solveVars

(* no call is in flight *)
Quiet == \A c \in Calls : pc[c] = "idle"

(* post by a caller that awaits each call before it issues the next *)
SerialPost(c) ==
    /\ Quiet
    /\ Post(c)

(* The client under such a caller, with every socket event and every answer
   of the server. *)
NextPipeline ==
    \/ \E c \in Calls : SerialPost(c)
    \/ \E c \in Calls : RequestHandler(c)
    \/ \E c \in Calls : RequestError(c)
    \/ \E c \in Calls, r \in Responses : Response(c, r)
    \/ \E c \in Calls : StatusStep(c)
    \/ \E c \in Calls : ContentTypeStep(c)
    \/ \E c \in Calls : BodyStep(c)
    \/ \E c \in Calls, chunk \in ChunkAlphabet : Data(c, chunk)
    \/ \E c \in Calls : End(c)
    \/ \E c \in Calls : StreamError(c)
    \/ \E c \in Calls : JSONStep(c)
    \/ \E c \in Calls : Return(c)
    \/ \E s \in Sockets : SocketConnect(s)
    \/ \E s \in Sockets : SocketError(s)
    \/ \E s \in Sockets : SocketClose(s)

SpecPipeline == Init /\ [][NextPipeline]_vars

(* a queued continuation of some call runs *)
Continuation ==
    \E c \in Calls :
        RequestHandler(c) \/ StatusStep(c) \/ ContentTypeStep(c) \/ BodyStep(c) \/ JSONStep(c)

(* a socket that is still connecting emits 'connect' or 'error' *)
ConnectSettles ==
    \E s \in Sockets :
        \/ SocketConnect(s)
        \/ (sockState[s] = "connecting" /\ SocketError(s))

(* a request yields a response or a request error *)
RequestSettles ==
    \E c \in Calls :
        \/ \E r \in Responses : Response(c, r)
        \/ RequestError(c)

(* a response stream ends or errors *)
StreamSettles ==
    \E c \in Calls : End(c) \/ StreamError(c)

(* Node runs every queued continuation; every opened socket emits 'connect'
   or 'error', every request yields a response or an error, every response
   stream ends or errors. *)
FairPipeline ==
    /\ WF_vars(Continuation)
    /\ WF_vars(ConnectSettles)
    /\ WF_vars(RequestSettles)
    /\ WF_vars(StreamSettles)

SpecPipelineFair == SpecPipeline /\ FairPipeline

----------------------------------------------------------------------------
(* The polling task orchestrator: one solve call                            *)

(* the getTaskResult requests sent so far *)
Polls == Len(SelectSeq(sent, LAMBDA r : r.method = "getTaskResult"))

(* solve ends: the phase becomes terminal and the promise settles *)
Finish(to, with) ==
    /\ phase' = to
    /\ solveOutcome' = with
    /\ inFlight' = FALSE

(* Submitting: the caller invokes solve, which sends createTask. *)
Solve ==
    /\ phase = "Idle"
    /\ phase' = "Submitting"
    /\ sent' = Append(sent, Request("createTask", NoTask))
    /\ inFlight' = TRUE
    /\ UNCHANGED <<maxAttempts, attempts, createAnswer, taskId, lastAnswer, solveOutcome>>

(* polls whatever createTask answered *)
CreateTaskAnswerIgnoresErrorId(a) ==
    /\ phase = "Submitting"
    /\ inFlight
    /\ createAnswer' = a
    /\ taskId' = a.taskId
    /\ phase' = "Polling"
    /\ inFlight' = FALSE
    /\ UNCHANGED <<maxAttempts, attempts, lastAnswer, sent, solveOutcome>>

(* createTask is answered with a well-formed 200 response: a non-zero errorId
   is a terminal business error, else the task identifier is stored and
   polling begins. *)
CreateTaskAnswer(a) ==
    /\ phase = "Submitting"
    /\ inFlight
    /\ createAnswer' = a
    /\ IF a.errorId # 0
          THEN /\ Finish("Failed", SolveServiceError(a))
               /\ UNCHANGED taskId
          ELSE /\ taskId' = a.taskId
               /\ phase' = "Polling"
               /\ inFlight' = FALSE
               /\ UNCHANGED solveOutcome
    /\ UNCHANGED <<maxAttempts, attempts, lastAnswer, sent>>

(* the post of createTask rejects: transport and protocol errors end the call *)
CreateTaskRejects(kind) ==
    /\ phase = "Submitting"
    /\ inFlight
    /\ Finish("Failed", SolvePostFailure(kind))
    /\ UNCHANGED <<maxAttempts, attempts, createAnswer, taskId, lastAnswer, sent>>

(* asks for another task on every later poll *)
PollOtherTask ==
    /\ phase = "Polling"
    /\ ~inFlight
    /\ sent' = Append(sent, Request("getTaskResult", taskId + Polls))
    /\ inFlight' = TRUE
    /\ UNCHANGED <<phase, maxAttempts, attempts, createAnswer, taskId, lastAnswer, solveOutcome>>

(* Polling, after the initial delay or the inter-poll interval: send
   getTaskResult with the stored task identifier. *)
Poll ==
    /\ phase = "Polling"
    /\ ~inFlight
    /\ sent' = Append(sent, Request("getTaskResult", taskId))
    /\ inFlight' = TRUE
    /\ UNCHANGED <<phase, maxAttempts, attempts, createAnswer, taskId, lastAnswer, solveOutcome>>

(* gives up one not-ready answer too late *)
PollAnswerOneMore(a) ==
    /\ phase = "Polling"
    /\ inFlight
    /\ lastAnswer' = a
    /\ IF a.errorId # 0
          THEN /\ Finish("Failed", SolveServiceError(a))
               /\ UNCHANGED attempts
          ELSE IF a.status = "ready"
          THEN /\ Finish("Ready", SolveSolution(a.solution))
               /\ UNCHANGED attempts
          ELSE /\ attempts' = attempts + 1
               /\ IF attempts + 1 > maxAttempts
                     THEN Finish("TimedOut", SolveTimeout(attempts + 1))
                     ELSE /\ inFlight' = FALSE
                          /\ UNCHANGED <<phase, solveOutcome>>
    /\ UNCHANGED <<maxAttempts, createAnswer, taskId, sent>>

(* takes a business error of getTaskResult for not ready *)
PollAnswerRetriesOnError(a) ==
    /\ phase = "Polling"
    /\ inFlight
    /\ lastAnswer' = a
    /\ IF a.errorId = 0 /\ a.status = "ready"
          THEN /\ Finish("Ready", SolveSolution(a.solution))
               /\ UNCHANGED attempts
          ELSE /\ attempts' = attempts + 1
               /\ IF attempts + 1 >= maxAttempts
                     THEN Finish("TimedOut", SolveTimeout(attempts + 1))
                     ELSE /\ inFlight' = FALSE
                          /\ UNCHANGED <<phase, solveOutcome>>
    /\ UNCHANGED <<maxAttempts, createAnswer, taskId, sent>>

(* getTaskResult is answered: ready resolves with the solution, a non-zero
   errorId fails, and not ready increments the attempt counter and retries
   unless the counter has reached the maximum. *)
PollAnswer(a) ==
    /\ phase = "Polling"
    /\ inFlight
    /\ lastAnswer' = a
    /\ IF a.errorId # 0
          THEN /\ Finish("Failed", SolveServiceError(a))
               /\ UNCHANGED attempts
          ELSE IF a.status = "ready"
          THEN /\ Finish("Ready", SolveSolution(a.solution))
               /\ UNCHANGED attempts
          ELSE /\ attempts' = attempts + 1
               /\ IF attempts + 1 >= maxAttempts
                     THEN Finish("TimedOut", SolveTimeout(attempts + 1))
                     ELSE /\ inFlight' = FALSE
                          /\ UNCHANGED <<phase, solveOutcome>>
    /\ UNCHANGED <<maxAttempts, createAnswer, taskId, sent>>

(* the post of getTaskResult rejects *)
PollRejects(kind) ==
    /\ phase = "Polling"
    /\ inFlight
    /\ Finish("Failed", SolvePostFailure(kind))
    /\ UNCHANGED <<maxAttempts, attempts, createAnswer, taskId, lastAnswer, sent>>

NextSolve ==
    \/ Solve /\ UNCHANGED <<connVars, callVars>>
    \/ \E a \in CreateTaskAnswers : CreateTaskAnswer(a) /\ UNCHANGED <<connVars, callVars>>
    \/ \E kind \in PostFailures : CreateTaskRejects(kind) /\ UNCHANGED <<connVars, callVars>>
    \/ Poll /\ UNCHANGED <<connVars, callVars>>
    \/ \E a \in GetTaskResultAnswers : PollAnswer(a) /\ UNCHANGED <<connVars, callVars>>
    \/ \E kind \in PostFailures : PollRejects(kind) /\ UNCHANGED <<connVars, callVars>>

(* a client configured with any maximum of attempts from 1 up *)
InitSolve ==
    /\ ClientInit
    /\ \E m \in 1..MaxPollAttempts : SolveInit(m)

SpecSolve == InitSolve /\ [][NextSolve]_vars

----------------------------------------------------------------------------
(* Properties of the transport, under SpecConnection                       *)

(* call c takes its first step, post up to its first await, in this step *)
Posts(c) == pc[c] = "idle" /\ pc'[c] # "idle"

(* socket s gets its 'error' or its 'close' event in this step *)
Fails(s) == sockState'[s] # sockState[s] /\ sockState'[s] \in {"errored", "closed"}

(* C1: at most one socket opened by the client is connecting or connected at
   any time. *)
C1_AtMostOneOpen ==
    Cardinality(Open) <= 1

(* C2: a call of netConnectOrUse that follows another one with no socket
   'error' or 'close' event in between opens no socket and resolves at once;
   the stored socket is the one stored when the earlier call returned, the
   stored agent is not touched and, where there is one, it is the agent of
   that socket. *)
C2_SecondCallReuses ==
    [][\A c \in Calls :
          (Posts(c) /\ handle # Undefined) =>
              /\ sockState' = sockState
              /\ pc'[c] = "connResolved"
              /\ socket' = handle
              /\ agent' = agent
              /\ agent' \in {Undefined, handle}]_vars

(* one socket was ever opened, it connected, one call issued its request over
   it and a second call has just got the same socket from netConnectOrUse *)
C2_Witness ==
    \E c, d \in Calls :
        /\ c # d
        /\ pc[c] = "requesting"
        /\ pc[d] = "connResolved"
        /\ Cardinality(Opened) = 1
        /\ handle = socket
        /\ socket \in Sockets
        /\ sockState[socket] = "connected"
        /\ agent = socket
        /\ reqAgent[c] = socket

(* C3: whenever the promise of netConnectOrUse has resolved for a call, the
   stored socket has emitted 'connect' and the agent built on it is stored. *)
C3_ResolvedMeansEstablished ==
    \A c \in Calls :
        pc[c] = "connResolved" =>
            /\ socket \in Sockets
            /\ sockState[socket] = "connected"
            /\ agent = socket

(* C4: every socket 'error' and every socket 'close' event leaves _socket and
   _agent undefined. *)
C4_ErrorCloseClears ==
    [][\A s \in Sockets :
          Fails(s) => (socket' = Undefined /\ agent' = Undefined)]_vars

(* a socket that had connected and carried a request has closed, a later
   socket failed while its connect was in flight, and both fields are clear *)
C4_Witness ==
    \E c, d \in Calls :
        /\ pc[c] = "rejected"
        /\ stages[c] = <<"connect">>
        /\ outcome[c].kind = "Error"
        /\ awaiting[c] \in Sockets
        /\ sockState[awaiting[c]] = "errored"
        /\ reqAgent[d] \in Sockets
        /\ sockState[reqAgent[d]] = "closed"
        /\ socket = Undefined
        /\ agent = Undefined

(* C5: a call whose connect was ended by the socket's 'error' or 'close'
   event is rejected with an HttpSocketError. *)
C5_ConnectFailureIsSocketError ==
    \A c \in Calls :
        ( /\ pc[c] = "rejected"
          /\ stages[c] = <<"connect">>
          /\ awaiting[c] \in Sockets
          /\ sockState[awaiting[c]] \in {"errored", "closed"} )
        => IsHttpSocketError(outcome[c])

(* C6: a socket is opened only in the first step of a post call, never by a
   socket event; and a post call that finds the socket cleared opens a socket
   that was never opened before and awaits its connect. *)
C6_NoAutoReconnect ==
    [][ /\ (Opened' # Opened => \E c \in Calls : Posts(c))
        /\ \A c \in Calls :
              (Posts(c) /\ socket = Undefined) =>
                  /\ socket' \in Opened' \ Opened
                  /\ sockState'[socket'] = "connecting"
                  /\ pc'[c] = "connecting"
                  /\ awaiting'[c] = socket' ]_vars

(* after a socket failed, a post call has opened the next one and awaits it *)
C6_Witness ==
    \E c \in Calls :
        /\ pc[c] = "connecting"
        /\ awaiting[c] = socket
        /\ socket \in Sockets
        /\ sockState[socket] = "connecting"
        /\ \E f \in Sockets : f < socket /\ sockState[f] \in {"errored", "closed"}

----------------------------------------------------------------------------
(* Properties of the response pipeline, under SpecPipeline                 *)

(* the text JSON.parse is given: the chunks received, joined and decoded *)
ReceivedText(c) == Utf8ToString(BufferConcat(chunks[c]))

(* a content-type header that is there and contains application/json or
   text/plain *)
AcceptedContentType(h) ==
    /\ h.present
    /\ \/ Includes(h.value, <<"application", "/", "json">>)
       \/ Includes(h.value, <<"text", "/", "plain">>)

(* C7: once the status check has run on a response whose status is not 200,
   the call is rejected with an HttpStatusError that carries the response's
   status code and status message, and no later stage has run: no
   content-type check, no chunk taken, no body decoded. *)
C7_NonOkStatusRejects ==
    \A c \in Calls :
        (res[c] # NoResponse /\ res[c].statusCode # 200 /\ pc[c] # "gotResponse") =>
            /\ pc[c] = "rejected"
            /\ outcome[c].kind = "HttpStatusError"
            /\ outcome[c].statusCode = res[c].statusCode
            /\ outcome[c].statusMessage = res[c].statusMessage
            /\ stages[c] = <<"connect", "request", "status">>
            /\ chunks[c] = <<>>
            /\ body[c] = <<>>

(* a 500 response was rejected with its code and message *)
C7_Witness ==
    \E c \in Calls :
        /\ pc[c] = "rejected"
        /\ res[c].statusCode = 500
        /\ res[c].statusMessage = <<"Internal Server Error">>
        /\ outcome[c] = HttpStatusError(<<"Internal Server Error">>, 500)

(* C8: once the content-type check has run on a status-200 response whose
   content-type header is missing or contains neither application/json nor
   text/plain, the call is rejected with an HttpContentTypeError, no chunk
   has been taken and no body decoded. *)
C8_BadContentTypeRejects ==
    \A c \in Calls :
        ( /\ res[c] # NoResponse
          /\ res[c].statusCode = 200
          /\ ~AcceptedContentType(res[c].contentType)
          /\ pc[c] \notin {"gotResponse", "statusOk"} ) =>
            /\ pc[c] = "rejected"
            /\ outcome[c].kind = "HttpContentTypeError"
            /\ stages[c] = <<"connect", "request", "status", "ctype">>
            /\ chunks[c] = <<>>
            /\ body[c] = <<>>

(* a 200 response of type text/html was rejected with a content-type error *)
C8_Witness ==
    \E c \in Calls :
        /\ pc[c] = "rejected"
        /\ res[c].statusCode = 200
        /\ res[c].contentType = Header(TRUE, <<"text", "/", "html">>)
        /\ outcome[c].kind = "HttpContentTypeError"

(* C9: a call holds a decoded value only when it has resolved, and then the
   stages ran in the order status, content type, body, JSON on a response
   with status 200 and an accepted content type, and the value is the JSON
   value of the whole text received. *)
C9_ValueOnlyAfterChecks ==
    \A c \in Calls :
        /\ (outcome[c].kind = "value" \/ outcome[c].value # NoValue) => pc[c] = "resolved"
        /\ pc[c] = "resolved" =>
              /\ stages[c] = <<"connect", "request", "status", "ctype", "body", "json">>
              /\ res[c].statusCode = 200
              /\ AcceptedContentType(res[c].contentType)
              /\ outcome[c].kind = "value"
              /\ JSONParse(ReceivedText(c)).ok
              /\ outcome[c].value = JSONParse(ReceivedText(c)).val

(* a call resolved with the string whose two-byte character arrived split
   over two chunks *)
C9_Witness ==
    \E c \in Calls :
        /\ pc[c] = "resolved"
        /\ chunks[c] = << <<34, 195>>, <<169, 34>> >>
        /\ outcome[c].value = JValue("str", 0, <<233>>, <<>>)

(* C10: once the JSON step has run on a text that is not valid JSON, the call
   is rejected with a JSONParseError that carries the text received, decoded
   as UTF-8 and otherwise unchanged, and the error is no HttpClientError. *)
C10_ParseErrorCarriesBody ==
    \A c \in Calls :
        (Len(stages[c]) = 6 /\ ~JSONParse(ReceivedText(c)).ok) =>
            /\ pc[c] = "rejected"
            /\ res[c].statusCode = 200
            /\ outcome[c].kind = "JSONParseError"
            /\ outcome[c].responseBody = ReceivedText(c)
            /\ ~IsHttpClientError(outcome[c])
            /\ ~IsHttpSocketError(outcome[c])

(* a call was rejected with the text of a body that ends inside a string *)
C10_Witness ==
    \E c \in Calls :
        /\ pc[c] = "rejected"
        /\ chunks[c] = << <<123, 125>>, <<34, 195>> >>
        /\ outcome[c].kind = "JSONParseError"
        /\ outcome[c].responseBody = <<123, 125, 34, ReplacementChar>>

(* C11: every rejection of a post call is one of the typed errors:
   HttpSocketError, HttpStatusError, HttpContentTypeError or JSONParseError. *)
C11_EveryRejectionIsTyped ==
    \A c \in Calls :
        pc[c] = "rejected" =>
            outcome[c].kind \in
                {"HttpSocketError", "HttpStatusError", "HttpContentTypeError", "JSONParseError"}

(* the stages of call c that issued a request *)
RequestsIssued(c) == {i \in 1..Len(stages[c]) : stages[c][i] = "request"}

(* C12: a call issues at most one request, and has issued exactly one once
   its connect step has succeeded and its continuation has run; a call that
   was rejected does nothing more: it issues no request, runs no further
   stage and opens no socket, it only returns to its caller. *)
C12_OneRequestNoRetry ==
    [][\A c \in Calls :
          /\ Cardinality(RequestsIssued(c))' <= 1
          /\ (pc'[c] \in {"requesting", "gotResponse", "statusOk", "ctOk", "receiving",
                          "bodyDone", "resolved"})
                => (Cardinality(RequestsIssued(c))' = 1 /\ reqAgent'[c] # NoRequest)
          /\ (pc'[c] \in {"idle", "connecting", "connResolved"})
                => (Cardinality(RequestsIssued(c))' = 0 /\ reqAgent'[c] = NoRequest)
          /\ pc[c] = "rejected" =>
                /\ pc'[c] \in {"rejected", "idle"}
                /\ pc'[c] = "rejected" => (stages'[c] = stages[c] /\ outcome'[c] = outcome[c])
                /\ Opened' = Opened]_vars

(* a call whose request failed stands rejected with its one request issued *)
C12_Witness ==
    \E c \in Calls :
        /\ pc[c] = "rejected"
        /\ stages[c] = <<"connect", "request">>
        /\ outcome[c].kind = "Error"
        /\ reqAgent[c] \in Sockets

(* C17: an 'error' or 'close' event of a socket other than the one the client
   holds leaves the stored socket and the stored agent as they are. *)
C17_StaleEventsLeaveState ==
    [][\A s \in Sockets :
          (Fails(s) /\ socket # Undefined /\ socket # s) =>
              (socket' = socket /\ agent' = agent)]_vars

(* C18: whenever the agent is defined, the socket is defined and is the socket
   the agent was built on. *)
C18_AgentOnStoredSocket ==
    agent # Undefined => (socket # Undefined /\ agent = socket)

(* after an earlier socket failed, the client holds a connected socket and
   the agent built on it *)
C18_Witness ==
    /\ agent \in Sockets
    /\ socket = agent
    /\ sockState[socket] = "connected"
    /\ \E f \in Sockets : f < socket /\ sockState[f] \in {"errored", "closed"}

(* C19: every request that a call has issued was given the client's agent:
   _agent was defined when requestHandler ran. *)
C19_RequestsUseAgent ==
    \A c \in Calls : reqAgent[c] # NoRequest => reqAgent[c] \in Sockets

(* C20: no post call stays in flight for ever; a call leaves flight only by
   settling, and a settled call keeps what it settled with until it is back
   with its caller.  So every call that has started settles, once. *)
C20_EveryCallSettles ==
    /\ \A c \in Calls : []<>(pc[c] \in {"idle", "resolved", "rejected"})
    /\ [][\A c \in Calls :
             /\ (pc[c] # "idle" /\ pc'[c] = "idle") => pc[c] \in {"resolved", "rejected"}
             /\ pc[c] \in {"resolved", "rejected"} =>
                   \/ pc'[c] = "idle"
                   \/ (pc'[c] = pc[c] /\ outcome'[c] = outcome[c])]_vars

(* a call went through every stage and resolved with the empty object *)
C20_Witness ==
    \E c \in Calls :
        /\ pc[c] = "resolved"
        /\ chunks[c] = << <<123, 125>> >>
        /\ outcome[c] = Resolution(JValue("obj", 0, <<>>, <<>>))

----------------------------------------------------------------------------
(* Properties of the orchestrator, under SpecSolve                          *)

Terminal == {"Ready", "Failed", "TimedOut"}

(* C13: a solve call never sends more getTaskResult requests than the
   configured maximum of attempts; it is timed out exactly when the attempt
   counter, the number of not-ready answers, has reached that maximum, and
   then it has sent exactly that many getTaskResult requests and has rejected
   with the timeout failure carrying that count. *)
C13_TimeoutAfterMaxAttempts ==
    /\ Polls <= maxAttempts
    /\ attempts <= Polls
    /\ (attempts >= maxAttempts) <=> (phase = "TimedOut")
    /\ phase = "TimedOut" =>
          /\ Polls = maxAttempts
          /\ attempts = maxAttempts
          /\ solveOutcome = SolveTimeout(maxAttempts)

C13_Witness ==
    /\ phase = "TimedOut"
    /\ maxAttempts >= 3
    /\ Polls = maxAttempts
    /\ solveOutcome.kind = "timeout"

(* C14: the first request of a solve call is createTask, every later one is
   getTaskResult, sent only after createTask was answered without an error,
   and each carries exactly the taskId of that answer. *)
C14_PollsCarryCreatedTaskId ==
    \A i \in 1..Len(sent) :
        IF i = 1
           THEN sent[i].method = "createTask"
           ELSE /\ sent[i].method = "getTaskResult"
                /\ createAnswer.method = "createTask"
                /\ createAnswer.errorId = 0
                /\ sent[i].taskId = createAnswer.taskId

(* the run of the integration test, with one not-ready answer in between *)
C14_Witness ==
    /\ phase = "Ready"
    /\ Polls = 2
    /\ createAnswer.taskId = 7654321
    /\ sent[2].taskId = 7654321
    /\ sent[3].taskId = 7654321
    /\ solveOutcome = SolveSolution("answer")

(* C15: once createTask is answered with a non-zero errorId the solve call
   has failed with the detail of that answer, the errorId and the errorCode,
   and it has never polled: no getTaskResult request, no stored task, no
   attempt. *)
C15_CreateTaskErrorFails ==
    (createAnswer.method = "createTask" /\ createAnswer.errorId # 0) =>
        /\ phase = "Failed"
        /\ solveOutcome = SolveServiceError(createAnswer)
        /\ solveOutcome.errorId = createAnswer.errorId
        /\ solveOutcome.errorCode = createAnswer.errorCode
        /\ sent = <<Request("createTask", NoTask)>>
        /\ Polls = 0
        /\ attempts = 0
        /\ taskId = NoTask

C15_Witness ==
    /\ phase = "Failed"
    /\ createAnswer.errorId = 12
    /\ solveOutcome.kind = "serviceError"
    /\ solveOutcome.errorCode = "ERROR_CAPTCHA_UNSOLVABLE"

(* C16: in every step of polling, a getTaskResult request after the first is
   sent only when the last answer was not ready; the step that ends a request
   leaves the call polling only if it counted a not-ready answer, resolves
   with the solution of a ready answer, and rejects with the detail of an
   answer with a non-zero errorId or with the failure of post; a step into
   Ready resolves and a step into Failed or TimedOut rejects; and from Ready,
   Failed and TimedOut nothing changes and nothing is sent. *)
C16_OnlyNotReadyIsRetried ==
    [][/\ (phase = "Polling" /\ Len(sent') > Len(sent)) =>
             /\ ~inFlight
             /\ \/ Polls = 0 /\ lastAnswer = NoAnswer
                \/ lastAnswer.errorId = 0 /\ lastAnswer.status = "processing"
       /\ (phase = "Polling" /\ inFlight /\ ~inFlight') =>
             /\ phase' = "Polling" =>
                   /\ lastAnswer'.errorId = 0
                   /\ lastAnswer'.status = "processing"
                   /\ attempts' = attempts + 1
             /\ phase' = "Ready" =>
                   /\ lastAnswer'.errorId = 0
                   /\ lastAnswer'.status = "ready"
                   /\ solveOutcome' = SolveSolution(lastAnswer'.solution)
             /\ phase' = "Failed" =>
                   \/ /\ lastAnswer'.errorId # 0
                      /\ solveOutcome' = SolveServiceError(lastAnswer')
                   \/ /\ lastAnswer' = lastAnswer
                      /\ solveOutcome'.kind = "postFailure"
                      /\ solveOutcome'.cause \in PostFailures
             /\ (attempts' = attempts /\ lastAnswer' # lastAnswer) => phase' \in {"Ready", "Failed"}
             /\ sent' = sent
       /\ (phase \notin Terminal /\ phase' \in Terminal) =>
             /\ ~inFlight'
             /\ (phase' = "Ready") <=> (solveOutcome'.kind = "solution")
             /\ (phase' = "TimedOut") <=> (solveOutcome'.kind = "timeout")
       /\ phase \in Terminal => UNCHANGED solveVars]_vars

(* a ready answer after a not-ready one *)
C16_Witness ==
    /\ phase = "Ready"
    /\ attempts = 1
    /\ Polls = 2
    /\ lastAnswer.solution = "other"
    /\ solveOutcome = SolveSolution("other")

====
